---- MODULE Spec2Model ----
(***************************************************************************)
(* Model of adetailer/mask.py: the bbox sorter and filters working on a    *)
(* PredictOutput (bboxes, masks, preview), and the mask pipeline           *)
(* (offset, dilate/erode, blank pruning, merge / invert / subtract).       *)
(*                                                                         *)
(* Python lists are TLA+ sequences (index 1 is Python index 0).  A bbox is *)
(* <<x1, y1, x2, y2>>.  A mask of a PredictOutput is an object identity    *)
(* (its pixels play no part in sorting or filtering).  A mask of the mask  *)
(* pipeline is a function from pixel coordinates <<x, y>> to 0..255.       *)
(* A call's outcome is a record [err, val]: err = "none" and val the       *)
(* returned value, or err the exception that left the call.                *)
(***************************************************************************)
EXTENDS Integers, Sequences, FiniteSets, TLC

VARIABLES
    orig,     \* the PredictOutput as the detector produced it (never changes)
    pred,     \* the caller's PredictOutput object: [bboxes, masks, preview]
    call,     \* the last sorter / filter call: [op, order, low, high, k]
    ret,      \* its outcome: "pred" (the object passed in) or an exception
    masks,    \* the mask list handed to the mask pipeline
    mcall,    \* the last mask call: [op, mode, kernel, x_offset, y_offset, a, b]
    result    \* its outcome: [err, val]

vars == <<orig, pred, call, ret, masks, mcall, result>>

predVars == <<orig, pred, call, ret>>
maskVars == <<masks, mcall, result>>

(***************************************************************************)
(* Enumerations                                                            *)
(***************************************************************************)
SortBy_NONE == 0
SortBy_LEFT_TO_RIGHT == 1
SortBy_CENTER_TO_EDGE == 2
SortBy_AREA == 3

MergeInvert_NONE == 0
MergeInvert_MERGE == 1
MergeInvert_MERGE_INVERT == 2
MergeInvert_SUBTRACT == 3

(***************************************************************************)
(* Bounds of the sorter / filter inputs                                    *)
(***************************************************************************)
MaxBoxes == 3        \* longest bbox list
MaxK == 2            \* k ranges over -1..MaxK
MaxRatioNum == 3     \* low and high range over (0..MaxRatioNum) / RatioDen

Preview == <<3, 2>>  \* pred.preview.size

\* the SortBy members and one integer that is none of them
Orders == SortBy_NONE..(SortBy_AREA + 1)

\* The bboxes a detection can have.  Distinct bboxes tie in every key:
\*   bbox           x1   area   4 * dist^2 to the center (1.5, 1)
\*   <<0,0,1,1>>    0    1      5
\*   <<0,0,2,1>>    0    2      2
\*   <<1,0,2,2>>    1    2      0
\*   <<1,0,3,1>>    1    2      2
BBoxes == { <<0, 0, 1, 1>>, <<0, 0, 2, 1>>, <<1, 0, 2, 2>>, <<1, 0, 3, 1>> }

\* low and high are the fractions n / RatioDen; with RatioDen the preview area
\* a bbox of area n has exactly the ratio n / RatioDen.
RatioDen == Preview[1] * Preview[2]

SeqsUpTo(S, n) == UNION { [1..m -> S] : m \in 0..n }

Range(s) == { s[i] : i \in DOMAIN s }

Min(a, b) == IF a <= b THEN a ELSE b
Max(a, b) == IF a >= b THEN a ELSE b

(***************************************************************************)
(* Bbox keys                                                               *)
(***************************************************************************)
bbox_area(bbox) == (bbox[3] - bbox[1]) * (bbox[4] - bbox[2])

_key_left_to_right(bbox) == bbox[1]

\* dist(center, bbox_center) with center = (width / 2, height / 2) and
\* bbox_center = ((x1 + x2) / 2, (y1 + y2) / 2).  The key kept here is
\* 4 * dist^2, an integer: the square root is strictly increasing, so two
\* keys compare as the two distances do.
_key_center_to_edge(bbox, size) ==
    (bbox[1] + bbox[3] - size[1]) * (bbox[1] + bbox[3] - size[1])
  + (bbox[2] + bbox[4] - size[2]) * (bbox[2] + bbox[4] - size[2])

_key_area(bbox) == - bbox_area(bbox)

(***************************************************************************)
(* sorted(range(items), key = ...): Python's sort is stable.  Modelled as  *)
(* the insertion sort that places each index after the indices already    *)
(* placed whose key is not greater.                                        *)
(***************************************************************************)
\* variant: the index goes before the indices of equal key (not stable)
InsertUnstable(s, i, keys) ==
    LET p == Cardinality({ j \in 1..Len(s) : keys[s[j]] < keys[i] })
    IN  SubSeq(s, 1, p) \o <<i>> \o SubSeq(s, p + 1, Len(s))

InsertByKey(s, i, keys) ==
    LET p == Cardinality({ j \in 1..Len(s) : keys[s[j]] <= keys[i] })
    IN  SubSeq(s, 1, p) \o <<i>> \o SubSeq(s, p + 1, Len(s))

RECURSIVE SortedUpTo(_, _)
SortedUpTo(keys, n) ==
    IF n = 0 THEN <<>> ELSE InsertByKey(SortedUpTo(keys, n - 1), n, keys)

sorted(keys) == SortedUpTo(keys, Len(keys))

Pick(s, idx) == [ j \in 1..Len(idx) |-> s[idx[j]] ]

(***************************************************************************)
(* sort_bboxes                                                             *)
(***************************************************************************)
SortKeys(p, order) ==
    [ i \in 1..Len(p.bboxes) |->
        IF order = SortBy_LEFT_TO_RIGHT THEN _key_left_to_right(p.bboxes[i])
        ELSE IF order = SortBy_CENTER_TO_EDGE
             THEN _key_center_to_edge(p.bboxes[i], p.preview)
        ELSE _key_area(p.bboxes[i]) ]

\* variant: bboxes are reordered, masks are not
sort_bboxes_masks_left(p, order) ==
    IF order = SortBy_NONE \/ Len(p.bboxes) <= 1
    THEN [err |-> "none", pred |-> p]
    ELSE IF order \in {SortBy_LEFT_TO_RIGHT, SortBy_CENTER_TO_EDGE, SortBy_AREA}
    THEN LET idx == sorted(SortKeys(p, order))
         IN  [err |-> "none",
              pred |-> [p EXCEPT !.bboxes = Pick(p.bboxes, idx)]]
    ELSE [err |-> "RuntimeError", pred |-> p]

sort_bboxes(p, order) ==
    IF order = SortBy_NONE \/ Len(p.bboxes) <= 1
    THEN [err |-> "none", pred |-> p]
    ELSE IF order \in {SortBy_LEFT_TO_RIGHT, SortBy_CENTER_TO_EDGE, SortBy_AREA}
    THEN LET idx == sorted(SortKeys(p, order))
         IN  [err |-> "none",
              pred |-> [p EXCEPT !.bboxes = Pick(p.bboxes, idx),
                                 !.masks = Pick(p.masks, idx)]]
    ELSE [err |-> "RuntimeError", pred |-> p]

(***************************************************************************)
(* filter_by_ratio                                                         *)
(***************************************************************************)
\* low <= area / orig_area <= high, with low = lowNum / RatioDen and
\* high = highNum / RatioDen, compared exactly by cross-multiplication.
\* variant: both bounds exclusive
is_in_ratio_strict(bbox, lowNum, highNum, orig_area) ==
    /\ lowNum * orig_area < bbox_area(bbox) * RatioDen
    /\ bbox_area(bbox) * RatioDen < highNum * orig_area

is_in_ratio(bbox, lowNum, highNum, orig_area) ==
    /\ lowNum * orig_area <= bbox_area(bbox) * RatioDen
    /\ bbox_area(bbox) * RatioDen <= highNum * orig_area

\* [i for i in range(items) if cond(i)]: the indices kept, ascending
RECURSIVE KeptUpTo(_, _, _, _, _)
KeptUpTo(bboxes, n, lowNum, highNum, orig_area) ==
    IF n = 0 THEN <<>>
    ELSE LET rest == KeptUpTo(bboxes, n - 1, lowNum, highNum, orig_area)
         IN  IF is_in_ratio(bboxes[n], lowNum, highNum, orig_area)
             THEN Append(rest, n) ELSE rest

filter_by_ratio(p, lowNum, highNum) ==
    IF Len(p.bboxes) = 0 THEN p
    ELSE LET orig_area == p.preview[1] * p.preview[2]
             idx == KeptUpTo(p.bboxes, Len(p.bboxes), lowNum, highNum, orig_area)
         IN  [p EXCEPT !.bboxes = Pick(p.bboxes, idx),
                       !.masks = Pick(p.masks, idx)]

(***************************************************************************)
(* filter_k_largest                                                        *)
(***************************************************************************)
Perms(n) == { f \in [1..n -> 1..n] : \A i, j \in 1..n : f[i] = f[j] => i = j }

\* np.argsort(areas) with the default kind ("quicksort"), which NumPy
\* documents as not stable: any permutation of the indices that puts the
\* areas in ascending order can come back; ties are in no promised order.
argsort(areas) ==
    { f \in Perms(Len(areas)) :
        \A i \in 1..(Len(areas) - 1) : areas[f[i]] <= areas[f[i + 1]] }

\* s[start:] of Python
SliceFrom(s, start) ==
    LET n == Len(s)
        from == IF start < 0 THEN Max(start + n, 0) ELSE Min(start, n)
    IN  SubSeq(s, from + 1, n)

Areas(p) == [ i \in 1..Len(p.bboxes) |-> bbox_area(p.bboxes[i]) ]

\* variant: no k == 0 test, so that [-0:] takes the whole sorted list
filter_k_largest_no_guard(p, k, sortedIdx) ==
    IF Len(p.bboxes) = 0 THEN p
    ELSE LET idx == SliceFrom(sortedIdx, - k)
         IN  [p EXCEPT !.bboxes = Pick(p.bboxes, idx),
                       !.masks = Pick(p.masks, idx)]

\* variant: the slice [:k], the k smallest areas
filter_k_largest_first(p, k, sortedIdx) ==
    IF Len(p.bboxes) = 0 \/ k = 0 THEN p
    ELSE LET idx == SubSeq(sortedIdx, 1, Min(Max(k, 0), Len(sortedIdx)))
         IN  [p EXCEPT !.bboxes = Pick(p.bboxes, idx),
                       !.masks = Pick(p.masks, idx)]

\* sortedIdx is the value np.argsort(areas) returned
filter_k_largest(p, k, sortedIdx) ==
    IF Len(p.bboxes) = 0 \/ k = 0 THEN p
    ELSE LET idx == SliceFrom(sortedIdx, - k)
         IN  [p EXCEPT !.bboxes = Pick(p.bboxes, idx),
                       !.masks = Pick(p.masks, idx)]

(***************************************************************************)
(* Bounds of the mask pipeline inputs                                      *)
(***************************************************************************)
MaxMasks == 3        \* longest mask list
MaxKernel == 2       \* kernel ranges over -MaxKernel..MaxKernel

Extent == <<3, 3>>   \* width and height of every mask

\* x_offset and y_offset: with a width and height of 3 these are all the
\* shifts there are, every other offset wraps around to one of them
Offsets == {-1, 0, 1}

Pixels == (0..(Extent[1] - 1)) \X (0..(Extent[2] - 1))

MaskOf(on) == [ p \in Pixels |-> IF p \in on THEN 255 ELSE 0 ]

\* The binary masks a detection can have: blank, the corner pixel (an
\* erosion by 2 leaves it, one by 3 blanks it), the centre pixel (an erosion
\* by 2 blanks it) and the lower right 2 x 2 block (an erosion by 2 leaves
\* one pixel of it).
InputMasks ==
    { MaskOf({}), MaskOf({<<0, 0>>}), MaskOf({<<1, 1>>}),
      MaskOf({<<1, 1>>, <<1, 2>>, <<2, 1>>, <<2, 2>>}) }

\* A mode argument is an int (or IntEnum member) or a str.
IntMode(n) == [isStr |-> FALSE, int |-> n, str |-> ""]
StrMode(s) == [isStr |-> TRUE, int |-> 0, str |-> s]

\* adetailer.args.MASK_MERGE_INVERT, the alias table
MASK_MERGE_INVERT == <<"None", "Merge", "Merge and Invert", "Subtract">>

\* the MergeInvert members, one integer that is none of them, the aliases,
\* and one string that is no alias
ModeInputs ==
    { IntMode(n) : n \in MergeInvert_NONE..(MergeInvert_SUBTRACT + 1) }
    \cup { StrMode(s) : s \in Range(MASK_MERGE_INVERT) \cup {"Bogus"} }

(***************************************************************************)
(* Geometry: dilate / erode, offset, blank test                            *)
(***************************************************************************)
SetMax(S) == CHOOSE x \in S : \A y \in S : y <= x

SetMin(S) == CHOOSE x \in S : \A y \in S : x <= y

\* The pixels a value x value rectangular structuring element covers when
\* anchored (at its centre, value // 2) on p; pixels outside the image are
\* left out, which is what OpenCV's default border value amounts to for
\* both dilation and erosion.
Covered(p, value) ==
    LET anchor == value \div 2
    IN  (Max(0, p[1] - anchor)..Min(Extent[1] - 1, p[1] - anchor + value - 1))
        \X (Max(0, p[2] - anchor)..Min(Extent[2] - 1, p[2] - anchor + value - 1))

_dilate(arr, value) ==
    [ p \in Pixels |-> SetMax({ arr[q] : q \in Covered(p, value) }) ]

_erode(arr, value) ==
    [ p \in Pixels |-> SetMin({ arr[q] : q \in Covered(p, value) }) ]

dilate_erode(img, value) ==
    IF value = 0 THEN img
    ELSE IF value > 0 THEN _dilate(img, value) ELSE _erode(img, - value)

\* ImageChops.offset(img, x, -y): the pixel at column c, row r comes from
\* column (c - x) mod width, row (r + y) mod height.
offset(img, x, y) ==
    [ p \in Pixels |->
        img[<<(p[1] - x) % Extent[1], (p[2] + y) % Extent[2]>>] ]

is_all_black(img) == \A p \in Pixels : img[p] = 0

(***************************************************************************)
(* Combination: subtract, merge, invert                                    *)
(***************************************************************************)
Clip(v, lo, hi) == IF v < lo THEN lo ELSE IF v > hi THEN hi ELSE v

\* np.array of a mask is a uint8 array: arr1 - arr2 is computed modulo 256
\* before np.clip sees it.
subtract_masks(mask1, mask2) ==
    [ p \in Pixels |-> Clip((mask1[p] - mask2[p]) % 256, 0, 255) ]

RECURSIVE bitwise_or(_, _)
bitwise_or(a, b) ==
    IF a = 0 THEN b
    ELSE IF b = 0 THEN a
    ELSE Max(a % 2, b % 2) + 2 * bitwise_or(a \div 2, b \div 2)

RECURSIVE ReduceOr(_, _)
ReduceOr(arrs, n) ==
    IF n = 1 THEN arrs[1]
    ELSE LET acc == ReduceOr(arrs, n - 1)
         IN  [ p \in Pixels |-> bitwise_or(acc[p], arrs[n][p]) ]

\* reduce() of an empty sequence with no initial value raises TypeError
mask_merge(ms) ==
    IF Len(ms) = 0 THEN [err |-> "TypeError", val |-> <<>>]
    ELSE [err |-> "none", val |-> <<ReduceOr(ms, Len(ms))>>]

mask_invert(ms) ==
    [ i \in 1..Len(ms) |-> [ p \in Pixels |-> 255 - ms[i][p] ] ]

\* MASK_MERGE_INVERT.index(mode), 0-based; -1 stands for the ValueError
AliasIndex(s) ==
    IF \E i \in DOMAIN MASK_MERGE_INVERT : MASK_MERGE_INVERT[i] = s
    THEN (CHOOSE i \in DOMAIN MASK_MERGE_INVERT : MASK_MERGE_INVERT[i] = s) - 1
    ELSE -1

\* variant: no `not masks` test
MergeInvertByInt_no_empty_guard(ms, mode) ==
    IF mode = MergeInvert_NONE
    THEN [err |-> "none", val |-> ms]
    ELSE IF mode = MergeInvert_MERGE THEN mask_merge(ms)
    ELSE IF mode = MergeInvert_MERGE_INVERT
    THEN LET merged == mask_merge(ms)
         IN  IF merged.err # "none" THEN merged
             ELSE [err |-> "none", val |-> mask_invert(merged.val)]
    ELSE IF mode = MergeInvert_SUBTRACT
    THEN IF Len(ms) # 2 THEN [err |-> "none", val |-> ms]
         ELSE [err |-> "none", val |-> <<subtract_masks(ms[1], ms[2])>>]
    ELSE [err |-> "RuntimeError", val |-> <<>>]

\* variant: SUBTRACT tests len(masks) < 2 instead of len(masks) != 2
MergeInvertByInt_subtract_first_two(ms, mode) ==
    IF mode = MergeInvert_NONE \/ Len(ms) = 0
    THEN [err |-> "none", val |-> ms]
    ELSE IF mode = MergeInvert_MERGE THEN mask_merge(ms)
    ELSE IF mode = MergeInvert_MERGE_INVERT
    THEN LET merged == mask_merge(ms)
         IN  IF merged.err # "none" THEN merged
             ELSE [err |-> "none", val |-> mask_invert(merged.val)]
    ELSE IF mode = MergeInvert_SUBTRACT
    THEN IF Len(ms) < 2 THEN [err |-> "none", val |-> ms]
         ELSE [err |-> "none", val |-> <<subtract_masks(ms[1], ms[2])>>]
    ELSE [err |-> "RuntimeError", val |-> <<>>]

\* mask_merge_invert once mode is an integer
MergeInvertByInt(ms, mode) ==
    IF mode = MergeInvert_NONE \/ Len(ms) = 0
    THEN [err |-> "none", val |-> ms]
    ELSE IF mode = MergeInvert_MERGE THEN mask_merge(ms)
    ELSE IF mode = MergeInvert_MERGE_INVERT
    THEN LET merged == mask_merge(ms)
         IN  IF merged.err # "none" THEN merged
             ELSE [err |-> "none", val |-> mask_invert(merged.val)]
    ELSE IF mode = MergeInvert_SUBTRACT
    THEN IF Len(ms) # 2 THEN [err |-> "none", val |-> ms]
         ELSE [err |-> "none", val |-> <<subtract_masks(ms[1], ms[2])>>]
    ELSE [err |-> "RuntimeError", val |-> <<>>]

mask_merge_invert(ms, mode) ==
    IF mode.isStr /\ AliasIndex(mode.str) < 0
    THEN [err |-> "ValueError", val |-> <<>>]
    ELSE MergeInvertByInt(ms, IF mode.isStr THEN AliasIndex(mode.str)
                              ELSE mode.int)

(***************************************************************************)
(* mask_preprocess                                                         *)
(***************************************************************************)
NotBlack(m) == ~ is_all_black(m)

\* variant: blank masks are pruned whether or not kernel is 0
mask_preprocess_prune_always(ms, kernel, x_offset, y_offset, merge_invert) ==
    IF Len(ms) = 0 THEN [err |-> "none", val |-> <<>>]
    ELSE LET shifted ==
                 IF x_offset # 0 \/ y_offset # 0
                 THEN [ i \in 1..Len(ms) |-> offset(ms[i], x_offset, y_offset) ]
                 ELSE ms
             pruned ==
                 SelectSeq([ i \in 1..Len(shifted) |->
                               dilate_erode(shifted[i], kernel) ],
                           NotBlack)
         IN  mask_merge_invert(pruned, merge_invert)

mask_preprocess(ms, kernel, x_offset, y_offset, merge_invert) ==
    IF Len(ms) = 0 THEN [err |-> "none", val |-> <<>>]
    ELSE LET shifted ==
                 IF x_offset # 0 \/ y_offset # 0
                 THEN [ i \in 1..Len(ms) |-> offset(ms[i], x_offset, y_offset) ]
                 ELSE ms
             pruned ==
                 IF kernel # 0
                 THEN SelectSeq([ i \in 1..Len(shifted) |->
                                    dilate_erode(shifted[i], kernel) ],
                                NotBlack)
                 ELSE shifted
         IN  mask_merge_invert(pruned, merge_invert)

(***************************************************************************)
(* Sorter / filter state machine                                           *)
(***************************************************************************)
NoCall == [op |-> "none", order |-> 0, low |-> 0, high |-> 0, k |-> 0]
NoMaskCall ==
    [op |-> "none", mode |-> IntMode(0), kernel |-> 0,
     x_offset |-> 0, y_offset |-> 0, a |-> 0, b |-> 0]
NoResult == [err |-> "none", val |-> <<>>]

InitPred ==
    /\ \E n \in 0..MaxBoxes :
         \E bs \in [1..n -> BBoxes] :
            pred = [bboxes |-> bs, masks |-> [i \in 1..n |-> i],
                    preview |-> Preview]
    /\ orig = pred
    /\ call = NoCall
    /\ ret = "none"
    /\ masks = <<>>
    /\ mcall = NoMaskCall
    /\ result = NoResult

SortBboxes ==
    \E order \in Orders :
        LET r == sort_bboxes(pred, order)
        IN  /\ pred' = r.pred
            /\ ret' = IF r.err = "none" THEN "pred" ELSE r.err
            /\ call' = [NoCall EXCEPT !.op = "sort_bboxes", !.order = order]
            /\ UNCHANGED <<orig, maskVars>>

FilterByRatio ==
    \E lowNum \in 0..MaxRatioNum, highNum \in 0..MaxRatioNum :
        /\ pred' = filter_by_ratio(pred, lowNum, highNum)
        /\ ret' = "pred"
        /\ call' = [NoCall EXCEPT !.op = "filter_by_ratio",
                                  !.low = lowNum, !.high = highNum]
        /\ UNCHANGED <<orig, maskVars>>

FilterKLargest ==
    \E k \in (-1)..MaxK :
        \E sortedIdx \in argsort(Areas(pred)) :
            /\ pred' = filter_k_largest(pred, k, sortedIdx)
            /\ ret' = "pred"
            /\ call' = [NoCall EXCEPT !.op = "filter_k_largest", !.k = k]
            /\ UNCHANGED <<orig, maskVars>>

NextPred == SortBboxes \/ FilterByRatio \/ FilterKLargest

SpecPred == InitPred /\ [][NextPred]_vars

(***************************************************************************)
(* Properties of the sorter and the filters (checked under SpecPred)       *)
(***************************************************************************)
Injective(f) == \A i, j \in DOMAIN f : f[i] = f[j] => i = j

\* out is inp with the (bbox, mask) pairs at the indices idx[1], idx[2], ...
PairsPicked(inp, out, idx) ==
    /\ Len(out.bboxes) = Len(idx)
    /\ Len(out.masks) = Len(idx)
    /\ \A i \in 1..Len(idx) :
         /\ out.bboxes[i] = inp.bboxes[idx[i]]
         /\ out.masks[i] = inp.masks[idx[i]]

\* C2: after any sequence of sort_bboxes, filter_by_ratio and
\* filter_k_largest calls, bboxes and masks have the same length and every
\* (bbox, mask) pair of the set is the pair at one index of the original
\* set, no original index being used twice.
C2_Aligned ==
    /\ Len(pred.bboxes) = Len(pred.masks)
    /\ \E f \in [1..Len(pred.bboxes) -> 1..Len(orig.bboxes)] :
         Injective(f) /\ PairsPicked(orig, pred, f)

\* C2 witness: three detections went through several calls that dropped
\* one and reordered the other two.
C2_DroppedAndReordered ==
    /\ Len(orig.bboxes) = 3
    /\ pred.masks = <<3, 1>>
    /\ pred.bboxes = <<orig.bboxes[3], orig.bboxes[1]>>
    /\ orig.bboxes[1] # orig.bboxes[3]

\* The cases in which a call is declared to leave the set as it is.
NoOpCall(p, c) ==
    \/ c.op = "sort_bboxes" /\ (c.order = SortBy_NONE \/ Len(p.bboxes) <= 1)
    \/ c.op = "filter_by_ratio" /\ Len(p.bboxes) = 0
    \/ c.op = "filter_k_largest" /\ (Len(p.bboxes) = 0 \/ c.k = 0)

Recognized(mode) ==
    IF mode.isStr
    THEN mode.str \in {"None", "Merge", "Merge and Invert", "Subtract"}
    ELSE mode.int \in {MergeInvert_NONE, MergeInvert_MERGE,
                       MergeInvert_MERGE_INVERT, MergeInvert_SUBTRACT}

\* C4: an unrecognized enum value always aborts the operation, whatever
\* the size of the input: sort_bboxes with an order that is no SortBy
\* member raises, and mask_merge_invert with a mode that is no MergeInvert
\* member or alias raises.
C4_InvalidEnumAborts ==
    /\ (call.op = "sort_bboxes"
        /\ call.order \notin {SortBy_NONE, SortBy_LEFT_TO_RIGHT,
                              SortBy_CENTER_TO_EDGE, SortBy_AREA})
       => ret = "RuntimeError"
    /\ (mcall.op = "mask_merge_invert" /\ ~ Recognized(mcall.mode))
       => result.err # "none"

\* The key the claim gives each order: x1; the distance of the centroid
\* ((x1 + x2) / 2, (y1 + y2) / 2) to the centre (width / 2, height / 2),
\* here four times its square; the negated area.
C5_Key(bbox, order, size) ==
    IF order = SortBy_LEFT_TO_RIGHT THEN bbox[1]
    ELSE IF order = SortBy_CENTER_TO_EDGE
    THEN (bbox[1] + bbox[3] - size[1]) * (bbox[1] + bbox[3] - size[1])
       + (bbox[2] + bbox[4] - size[2]) * (bbox[2] + bbox[4] - size[2])
    ELSE - ((bbox[3] - bbox[1]) * (bbox[4] - bbox[2]))

C5_SortedStable(inp, out, order) ==
    \E f \in Perms(Len(inp.bboxes)) :
        /\ PairsPicked(inp, out, f)
        /\ \A i, j \in 1..Len(inp.bboxes) :
             i < j =>
               LET ki == C5_Key(inp.bboxes[f[i]], order, inp.preview)
                   kj == C5_Key(inp.bboxes[f[j]], order, inp.preview)
               IN  ki <= kj /\ (ki = kj => f[i] < f[j])

\* C5: with at least 2 bboxes and an order among LEFT_TO_RIGHT,
\* CENTER_TO_EDGE and AREA, sort_bboxes leaves a permutation of the input
\* that is non-decreasing in the order's key and in which elements of equal
\* key keep their relative order; with order NONE or fewer than 2 bboxes
\* the set is as it was.
C5_SortStable ==
    [][ call'.op = "sort_bboxes" =>
          /\ (Len(pred.bboxes) >= 2
              /\ call'.order \in {SortBy_LEFT_TO_RIGHT, SortBy_CENTER_TO_EDGE,
                                  SortBy_AREA})
             => (ret' = "pred" /\ C5_SortedStable(pred, pred', call'.order))
          /\ (call'.order = SortBy_NONE \/ Len(pred.bboxes) < 2)
             => (ret' = "pred" /\ pred' = pred) ]_vars

\* C5 witness: an AREA sort of [area 1, area 2, area 2] has put the two
\* bboxes of area 2 first, in their original order.
C5_TieKeptInOrder ==
    /\ call.op = "sort_bboxes"
    /\ call.order = SortBy_AREA
    /\ Len(orig.bboxes) = 3
    /\ pred.masks = <<2, 3, 1>>
    /\ bbox_area(pred.bboxes[1]) = bbox_area(pred.bboxes[2])
    /\ bbox_area(pred.bboxes[3]) < bbox_area(pred.bboxes[2])

\* the indices of s in ascending order of area, ties in index order
C6_StableAscending(inp) ==
    CHOOSE f \in Perms(Len(inp.bboxes)) :
        \A i, j \in 1..Len(inp.bboxes) :
            i < j =>
              LET ai == bbox_area(inp.bboxes[f[i]])
                  aj == bbox_area(inp.bboxes[f[j]])
              IN  ai <= aj /\ (ai = aj => f[i] < f[j])

C7_Kept(inp, lowNum, highNum) ==
    { i \in 1..Len(inp.bboxes) :
        LET area == (inp.bboxes[i][3] - inp.bboxes[i][1])
                      * (inp.bboxes[i][4] - inp.bboxes[i][2])
            wh == inp.preview[1] * inp.preview[2]
        IN  /\ lowNum * wh <= area * RatioDen
            /\ area * RatioDen <= highNum * wh }

\* C7: filter_by_ratio keeps index i if and only if
\* low <= area(bbox_i) / (width * height) <= high, both bounds inclusive,
\* and the kept bboxes and masks are a subsequence of the input in its
\* original order; an empty set is as it was.
C7_RatioInclusive ==
    [][ call'.op = "filter_by_ratio" =>
          LET K == C7_Kept(pred, call'.low, call'.high)
          IN  /\ ret' = "pred"
              /\ Len(pred'.bboxes) = Cardinality(K)
              /\ Len(pred'.masks) = Cardinality(K)
              /\ \A i \in K :
                   LET pos == Cardinality({ j \in K : j <= i })
                   IN  /\ pred'.bboxes[pos] = pred.bboxes[i]
                       /\ pred'.masks[pos] = pred.masks[i]
              /\ Len(pred.bboxes) = 0 => pred' = pred ]_vars

\* C7 witness: with low = high = 2 / 6 the bboxes of area 2 (ratio 2 / 6
\* exactly) were kept and one of area 1 between them was dropped.
C7_BoundaryKept ==
    /\ call.op = "filter_by_ratio"
    /\ call.low = 2
    /\ call.high = 2
    /\ Len(orig.bboxes) = 3
    /\ pred.masks = <<1, 3>>
    /\ bbox_area(pred.bboxes[1]) * RatioDen = 2 * Preview[1] * Preview[2]

(***************************************************************************)
(* Mask pipeline state machine.  The pipeline keeps no state between       *)
(* calls: a behaviour is one call on the mask list drawn in InitMask.      *)
(***************************************************************************)
InitMask ==
    /\ masks \in SeqsUpTo(InputMasks, MaxMasks)
    /\ mcall = NoMaskCall
    /\ result = NoResult
    /\ pred = [bboxes |-> <<>>, masks |-> <<>>, preview |-> Preview]
    /\ orig = pred
    /\ call = NoCall
    /\ ret = "none"

SubtractMasks ==
    /\ mcall.op = "none"
    /\ \E a, b \in DOMAIN masks :
        /\ result' = [err |-> "none",
                      val |-> <<subtract_masks(masks[a], masks[b])>>]
        /\ mcall' = [NoMaskCall EXCEPT !.op = "subtract_masks",
                                       !.a = a, !.b = b]
    /\ UNCHANGED <<masks, predVars>>

MaskMergeInvert ==
    /\ mcall.op = "none"
    /\ \E mode \in ModeInputs :
        /\ result' = mask_merge_invert(masks, mode)
        /\ mcall' = [NoMaskCall EXCEPT !.op = "mask_merge_invert",
                                       !.mode = mode]
    /\ UNCHANGED <<masks, predVars>>

MaskPreprocess ==
    /\ mcall.op = "none"
    /\ \E kernel \in (- MaxKernel)..MaxKernel,
          x_offset \in Offsets, y_offset \in Offsets,
          mode \in ModeInputs :
        /\ result' = mask_preprocess(masks, kernel, x_offset, y_offset, mode)
        /\ mcall' = [NoMaskCall EXCEPT !.op = "mask_preprocess",
                                       !.mode = mode, !.kernel = kernel,
                                       !.x_offset = x_offset,
                                       !.y_offset = y_offset]
    /\ UNCHANGED <<masks, predVars>>

NextMask == SubtractMasks \/ MaskMergeInvert \/ MaskPreprocess

SpecMask == InitMask /\ [][NextMask]_vars

(***************************************************************************)
(* Properties of the mask pipeline (checked under SpecMask)                *)
(***************************************************************************)
\* C1: every pixel of subtract_masks(a, b) is clamp(a_pixel - b_pixel, 0,
\* 255), that is max(a_pixel - b_pixel, 0): where a is 0 and b is 255 the
\* result is 0, the difference does not wrap around.
C1_SubtractClamps ==
    mcall.op = "subtract_masks" =>
        \A p \in Pixels :
            result.val[1][p]
              = Max(0, Min(255, masks[mcall.a][p] - masks[mcall.b][p]))

\* the integer mode the claim gives a recognized mode argument: itself, or
\* the index of the alias in "None", "Merge", "Merge and Invert", "Subtract"
C8_ModeOf(mode) ==
    IF ~ mode.isStr THEN mode.int
    ELSE IF mode.str = "None" THEN 0
    ELSE IF mode.str = "Merge" THEN 1
    ELSE IF mode.str = "Merge and Invert" THEN 2
    ELSE 3

\* the pixelwise OR of binary (0 / 255) masks
C8_Or(ms) ==
    [ p \in Pixels |-> IF \E i \in 1..Len(ms) : ms[i][p] = 255 THEN 255 ELSE 0 ]

\* C8: for a recognized mode mask_merge_invert returns the list it was
\* given when the mode is NONE, the list is empty, or the mode is SUBTRACT
\* and the list has not exactly 2 masks; the single pixelwise OR of all
\* masks for MERGE; the single complement (255 - pixel) of that OR for
\* MERGE_INVERT; [subtract_masks(masks[0], masks[1])] for SUBTRACT with
\* exactly 2 masks.  An alias gives what its index in the table gives.
C8_MergeInvertCases ==
    (mcall.op = "mask_merge_invert" /\ Recognized(mcall.mode)) =>
        LET mode == C8_ModeOf(mcall.mode)
        IN  /\ result.err = "none"
            /\ IF \/ mode = 0
                  \/ Len(masks) = 0
                  \/ mode = 3 /\ Len(masks) # 2
               THEN result.val = masks
               ELSE IF mode = 1 THEN result.val = <<C8_Or(masks)>>
               ELSE IF mode = 2
               THEN result.val
                      = <<[ p \in Pixels |-> 255 - C8_Or(masks)[p] ]>>
               ELSE result.val = <<subtract_masks(masks[1], masks[2])>>

\* C8 witness: SUBTRACT given by its alias on 3 masks has returned the 3
\* masks as they were.
C8_SubtractOfThree ==
    /\ mcall.op = "mask_merge_invert"
    /\ mcall.mode = StrMode("Subtract")
    /\ Len(masks) = 3
    /\ masks[1] # masks[2]
    /\ result = [err |-> "none", val |-> masks]

\* the members of ms that are not blank, in their order
C9_NonBlank(ms) ==
    LET K == { i \in 1..Len(ms) : \E p \in Pixels : ms[i][p] # 0 }
    IN  [ j \in 1..Cardinality(K) |->
            ms[CHOOSE i \in K : Cardinality({ h \in K : h <= i }) = j] ]

\* C9: for a non-empty list, with s the masks each shifted by (x_offset,
\* y_offset), mask_preprocess returns mask_merge_invert(s, mode) when
\* kernel is 0 (blank masks are not pruned), and otherwise
\* mask_merge_invert of the non-blank members, in their order, of the
\* masks of s dilated or eroded by kernel: the combination, the test
\* len == 2 of SUBTRACT included, sees the pruned list.
C9_StageOrder ==
    (mcall.op = "mask_preprocess" /\ Len(masks) > 0) =>
        LET s == [ i \in 1..Len(masks) |->
                     offset(masks[i], mcall.x_offset, mcall.y_offset) ]
            morphed == [ i \in 1..Len(s) |-> dilate_erode(s[i], mcall.kernel) ]
        IN  result = IF mcall.kernel = 0
                     THEN mask_merge_invert(s, mcall.mode)
                     ELSE mask_merge_invert(C9_NonBlank(morphed), mcall.mode)

\* C9 witness: of 3 non-blank masks erosion has blanked one, and SUBTRACT
\* has subtracted the two that were left.
C9_PrunedThenSubtracted ==
    /\ mcall.op = "mask_preprocess"
    /\ mcall.kernel < 0
    /\ mcall.mode = IntMode(MergeInvert_SUBTRACT)
    /\ Len(masks) = 3
    /\ \A i \in 1..3 : ~ is_all_black(masks[i])
    /\ result.err = "none"
    /\ Len(result.val) = 1

\* C10: for every list, kernel, offsets and recognized mode,
\* mask_preprocess returns a mask list and never raises; the list is never
\* longer than the input; when every mask is blank after erosion the
\* result is the empty list.
C10_NeverFails ==
    (mcall.op = "mask_preprocess" /\ Recognized(mcall.mode)) =>
        /\ result.err = "none"
        /\ Len(result.val) <= Len(masks)
        /\ (/\ mcall.kernel # 0
            /\ \A i \in 1..Len(masks) :
                 is_all_black(dilate_erode(
                     offset(masks[i], mcall.x_offset, mcall.y_offset),
                     mcall.kernel)))
           => result.val = <<>>

\* C10 witness: erosion has blanked every mask of a list of non-blank
\* masks, and MERGE has returned the empty list.
C10_AllErodedAway ==
    /\ mcall.op = "mask_preprocess"
    /\ mcall.kernel < 0
    /\ mcall.mode = IntMode(MergeInvert_MERGE)
    /\ Len(masks) >= 2
    /\ \A i \in 1..Len(masks) : ~ is_all_black(masks[i])
    /\ result = [err |-> "none", val |-> <<>>]

====
